---------------------------- MODULE Spec2Model ----------------------------
(***************************************************************************)
(* Model of the weighting and discrete-allocation engine of                *)
(* src/code/utils_pkg/utils.py (class StockAnalyzer):                      *)
(*   portfolio_optimization, extract_stock_wieght and allocate_funds.      *)
(*                                                                         *)
(* pandas/numpy numbers are IEEE doubles.  They are modelled as exact      *)
(* rationals extended with the three non-finite values the code can        *)
(* produce (NaN, +inf, -inf); rounding error of finite arithmetic is not   *)
(* modelled.  A table (DataFrame) is a function from its index labels to   *)
(* rows, a row is a function from column names to values, so the set of    *)
(* columns of a table is the DOMAIN of its rows.  The pass-through columns *)
(* industry and website are carried by the code unchanged and are left out.*)
(* Index labels (ticker symbols) are unique, as get_sp_500_info builds the *)
(* table from a dict.  Negative prices and missing profit margins are not  *)
(* among the inputs of the model.                                          *)
(***************************************************************************)
EXTENDS Integers, Sequences, FiniteSets, TLC

(***************************************************************************)
(* Bounds of the model.                                                    *)
(***************************************************************************)
NumStocks == 2      \* rows of the table handed to allocate_funds
MaxPrice == 2       \* prices are drawn from 0..MaxPrice and NaN
WDen == 3           \* weights are drawn from {k/WDen : k \in 0..WDen}
MaxBudget == 6      \* total_amount is drawn from -MaxDeficit..MaxBudget
MaxDeficit == 1
PassCap == 7        \* the pass counter saturates here
NumRecords == 3     \* rows of stock_port_df
MaxMargin == 1      \* profitMargins are drawn from 0..MaxMargin
MaxLimit == 2       \* limit is drawn from 1..MaxLimit
MaxAmount == 2      \* total_amount of portfolio_optimization, 1..MaxAmount
MaxBeta == 2        \* avg_beta is drawn from -1..MaxBeta and NaN
NumSectors == 2     \* sectors of stock_port_df
MaxOptPrice == 2    \* prices of stock_port_df, 1..MaxOptPrice

(***************************************************************************)
(* Extended rationals: the values of a float64 cell.                       *)
(***************************************************************************)
RECURSIVE GCD(_, _)
GCD(a, b) == IF b = 0 THEN a ELSE GCD(b, a % b)

Abs(x) == IF x < 0 THEN 0 - x ELSE x
Sgn(x) == IF x < 0 THEN 0 - 1 ELSE IF x = 0 THEN 0 ELSE 1

NaN == [k |-> "nan", n |-> 0, d |-> 1]
PosInf == [k |-> "inf", n |-> 1, d |-> 1]
NegInf == [k |-> "inf", n |-> 0 - 1, d |-> 1]
SInf(s) == IF s < 0 THEN NegInf ELSE PosInf

\* the rational n/d, d # 0, in lowest terms with a positive denominator
Fin(n, d) ==
    LET g == GCD(Abs(n), Abs(d))
        s == Sgn(d)
    IN  [k |-> "fin", n |-> (s * n) \div g, d |-> Abs(d) \div g]

I(n) == [k |-> "fin", n |-> n, d |-> 1]

IsNaN(a) == a.k = "nan"
IsFin(a) == a.k = "fin"
IsInf(a) == a.k = "inf"

FNeg(a) == IF IsNaN(a) THEN NaN ELSE [a EXCEPT !.n = 0 - a.n]

FAdd(a, b) ==
    IF IsNaN(a) \/ IsNaN(b) THEN NaN
    ELSE IF IsInf(a) /\ IsInf(b) THEN (IF a.n = b.n THEN a ELSE NaN)
    ELSE IF IsInf(a) THEN a
    ELSE IF IsInf(b) THEN b
    ELSE Fin(a.n * b.d + b.n * a.d, a.d * b.d)

FSub(a, b) == FAdd(a, FNeg(b))

FMul(a, b) ==
    IF IsNaN(a) \/ IsNaN(b) THEN NaN
    ELSE IF IsInf(a) \/ IsInf(b)
         THEN (IF a.n = 0 \/ b.n = 0 THEN NaN ELSE SInf(Sgn(a.n) * Sgn(b.n)))
    ELSE Fin(a.n * b.n, a.d * b.d)

\* numpy/pandas true division: x/0 is +-inf or NaN, never an exception
FDiv(a, b) ==
    IF IsNaN(a) \/ IsNaN(b) THEN NaN
    ELSE IF IsInf(a) THEN (IF IsInf(b) THEN NaN
                           ELSE SInf(a.n * (IF b.n < 0 THEN 0 - 1 ELSE 1)))
    ELSE IF IsInf(b) THEN I(0)
    ELSE IF b.n = 0 THEN (IF a.n = 0 THEN NaN ELSE SInf(a.n))
    ELSE Fin(a.n * b.d, a.d * b.n)

\* np.floor
FFloor(a) == IF IsFin(a) THEN I(a.n \div a.d) ELSE a

\* a < b as numpy compares: False whenever an operand is NaN
FLt(a, b) ==
    IF IsNaN(a) \/ IsNaN(b) THEN FALSE
    ELSE IF IsInf(a) THEN a.n < 0 /\ ~(IsInf(b) /\ b.n < 0)
    ELSE IF IsInf(b) THEN b.n > 0
    ELSE a.n * b.d < b.n * a.d

FGt(a, b) == FLt(b, a)
FLe(a, b) == ~IsNaN(a) /\ ~IsNaN(b) /\ ~FLt(b, a)

\* Series.sum(): skipna=True, the sum of no value is 0
RECURSIVE FSum(_, _)
FSum(f, S) ==
    IF S = {} THEN I(0)
    ELSE LET x == CHOOSE y \in S : TRUE
         IN  IF IsNaN(f[x]) THEN FSum(f, S \ {x})
             ELSE FAdd(f[x], FSum(f, S \ {x}))

(***************************************************************************)
(* Tables.                                                                 *)
(***************************************************************************)
EmptyTable == [t \in {} |-> NaN]

Columns(table) == UNION {DOMAIN table[t] : t \in DOMAIN table}

\* df[c] = v, v a Series aligned on the index
SetColumn(table, c, v) ==
    [t \in DOMAIN table |->
        [x \in DOMAIN table[t] \cup {c} |-> IF x = c THEN v[t] ELSE table[t][x]]]

\* df[cols]
Project(table, cols) ==
    [t \in DOMAIN table |-> [x \in cols |-> table[t][x]]]

Column(table, c) == [t \in DOMAIN table |-> table[t][c]]

Range(s) == {s[i] : i \in DOMAIN s}

\* the orders of the labels of S (sequences without repetition over S)
Orders(S) ==
    {s \in [1..Cardinality(S) -> S] : \A i, j \in 1..Cardinality(S) : i # j => s[i] # s[j]}

VARIABLES
    pc,                 \* position of the call in progress
    metrics_df_global,  \* the caller's sector table (argument of portfolio_optimization)
    stock_port_df,      \* the caller's stock table (argument of portfolio_optimization)
    limit,              \* argument of portfolio_optimization
    selected,           \* the local stock_port_df rebound at line 53
    total_amount,       \* the budget
    df_orig,            \* the table object handed to allocate_funds (merged_df)
    df,                 \* allocate_funds' sorted copy: its row order and its shares column
    residue,            \* allocate_funds' unspent cash
    result,             \* the table allocate_funds returns
    portfolio,          \* row order of the table portfolio_optimization returns
    passes,             \* passes of the loop that incremented a share count (saturating)
    last                \* the latest pass: the residue it started with, the rows it incremented

vars == <<pc, metrics_df_global, stock_port_df, limit, selected, total_amount,
          df_orig, df, residue, result, portfolio, passes, last>>

optVars == <<metrics_df_global, stock_port_df, limit, selected, portfolio>>

NoPass == [residue |-> NaN, inc |-> {}]
NoDf == [order |-> << >>, shares |-> EmptyTable]

(***************************************************************************)
(* allocate_funds                                                          *)
(***************************************************************************)
price_col == "regularMarketPrice"
weight_col == "final_wieght"

\* a must precede b in sort_values(ascending=False): larger first, NaN last
Precedes(a, b) == (~IsNaN(a) /\ IsNaN(b)) \/ FGt(a, b)

\* line 97 with ascending=True: smaller weights first, NaN last
SortedOrdersAscending(table, col) ==
    {s \in Orders(DOMAIN table) :
        \A i, j \in DOMAIN s : i < j =>
            ~((~IsNaN(table[s[j]][col]) /\ IsNaN(table[s[i]][col]))
              \/ FLt(table[s[j]][col], table[s[i]][col]))}

\* line 97: the row orders sort_values('final_wieght', ascending=False) can
\* give; the default sort is not stable, so equal weights come in any order
SortedOrders(table, col) ==
    {s \in Orders(DOMAIN table) :
        \A i, j \in DOMAIN s : i < j => ~Precedes(table[s[j]][col], table[s[i]][col])}

\* line 102 with the operands of the division swapped
Phase1SharesSwapped(table, amount) ==
    [t \in DOMAIN table |->
        FFloor(FDiv(table[t][price_col], FMul(I(amount), table[t][weight_col])))]

\* line 102: np.floor((total_amount * df[weight_col]) / df[price_col])
Phase1Shares(table, amount) ==
    [t \in DOMAIN table |->
        FFloor(FDiv(FMul(I(amount), table[t][weight_col]), table[t][price_col]))]

\* line 106: total_amount - (df['shares'] * df[price_col]).sum()
Phase1Residue(table, shares, amount) ==
    FSub(I(amount),
         FSum([t \in DOMAIN table |-> FMul(shares[t], table[t][price_col])], DOMAIN table))

\* line 115 with <= for <: df[df[price_col] <= residue]
AffordableOrEqual(order, table, res) ==
    SelectSeq(order, LAMBDA t : FLe(table[t][price_col], res))

\* line 115: df[df[price_col] < residue], in df's row order
Affordable(order, table, res) ==
    SelectSeq(order, LAMBDA t : FLt(table[t][price_col], res))

\* line 118: df_res[price_col].cumsum() at position i
RECURSIVE CumPrice(_, _, _)
CumPrice(seq, table, i) ==
    IF i = 0 THEN I(0) ELSE FAdd(CumPrice(seq, table, i - 1), table[seq[i]][price_col])

\* line 119 left out: every affordable row is bought
BoughtNoCumulativeFilter(order, table, res) == Range(Affordable(order, table, res))

\* line 119: the index of df_res[df_res['c_price'] < residue]
Bought(order, table, res) ==
    LET aff == Affordable(order, table, res)
    IN  {aff[i] : i \in {j \in DOMAIN aff : FLt(CumPrice(aff, table, j), res)}}

\* line 121 without its row mask: df_orig['shares'] += 1
IncSharesAllRows(table, inc) ==
    [t \in DOMAIN table |-> [table[t] EXCEPT !.shares = FAdd(@, I(1))]]

\* line 121: df_orig.loc[df_orig.index.isin(df_res.index), 'shares'] += 1
IncShares(table, inc) ==
    [t \in DOMAIN table |->
        IF t \in inc THEN [table[t] EXCEPT !.shares = FAdd(@, I(1))] ELSE table[t]]

\* line 122 left out: the residue is never reduced
NextResidueStale(table, res, inc) == res

\* line 122: residue -= df_res[price_col].sum()
NextResidue(table, res, inc) ==
    FSub(res, FSum([t \in DOMAIN table |-> table[t][price_col]], inc))

ReturnCols == {"sector", "shares", price_col}

\* lines 97-106
Phase1 ==
    /\ pc = "alloc"
    /\ \E o \in SortedOrders(df_orig, "final_wieght") :
         LET sh == Phase1Shares(df_orig, total_amount)
         IN  /\ df' = [order |-> o, shares |-> sh]
             /\ df_orig' = SetColumn(df_orig, "shares", sh)
             /\ residue' = Phase1Residue(df_orig, sh, total_amount)
    /\ pc' = "loop"
    /\ UNCHANGED <<optVars, total_amount, result, passes, last>>

\* lines 115-122: one pass of the while loop that does not break
Pass ==
    /\ pc = "loop"
    /\ Affordable(df.order, df_orig, residue) # << >>
    /\ LET inc == Bought(df.order, df_orig, residue)
       IN  /\ df_orig' = IncShares(df_orig, inc)
           /\ residue' = NextResidue(df_orig, residue, inc)
           /\ last' = [residue |-> residue, inc |-> inc]
           /\ passes' = IF inc # {} /\ passes < PassCap THEN passes + 1 ELSE passes
    /\ UNCHANGED <<optVars, pc, total_amount, df, result>>

\* lines 116-117 and 124: the filter is empty, the loop breaks, the table is returned
Exit ==
    /\ pc = "loop"
    /\ Affordable(df.order, df_orig, residue) = << >>
    /\ result' = Project(df_orig, ReturnCols)
    /\ pc' = "returned"
    /\ UNCHANGED <<optVars, total_amount, df_orig, df, residue, passes, last>>

\* the loop of lines 111-122 run to its exit from (table, res)
RECURSIVE Loop(_, _, _)
Loop(order, table, res) ==
    IF Affordable(order, table, res) = << >> THEN table
    ELSE LET inc == Bought(order, table, res)
         IN  Loop(order, IncShares(table, inc), NextResidue(table, res, inc))

\* allocate_funds as a function of its arguments, for the row order `order`
AllocateFunds(table, order, amount) ==
    LET sh == Phase1Shares(table, amount)
    IN  Loop(order, SetColumn(table, "shares", sh), Phase1Residue(table, sh, amount))

(***************************************************************************)
(* A direct call allocate_funds(df_orig, total_amount).                    *)
(***************************************************************************)
Prices == {NaN} \cup {I(p) : p \in 0..MaxPrice}
Weights == {Fin(k, WDen) : k \in 0..WDen}
Budgets == (0 - MaxDeficit)..MaxBudget

CandidateRows == [sector : {1}, regularMarketPrice : Prices, final_wieght : Weights]

WeightSum(table) == FSum(Column(table, weight_col), DOMAIN table)

CandidateTables ==
    UNION {{tb \in [1..n -> CandidateRows] : FLe(WeightSum(tb), I(1))} : n \in 1..NumStocks}

Init ==
    /\ pc = "alloc"
    /\ total_amount \in Budgets
    /\ df_orig \in CandidateTables
    /\ df = NoDf
    /\ residue = NaN
    /\ result = EmptyTable
    /\ passes = 0
    /\ last = NoPass
    /\ metrics_df_global = EmptyTable
    /\ stock_port_df = EmptyTable
    /\ selected = EmptyTable
    /\ limit = 0
    /\ portfolio = << >>

Next == Phase1 \/ Pass \/ Exit

Spec == Init /\ [][Next]_vars

(***************************************************************************)
(* portfolio_optimization                                                  *)
(***************************************************************************)
\* line 49: 1/metrics_df_global['avg_beta']
InverseBeta(metrics) == [s \in DOMAIN metrics |-> FDiv(I(1), metrics[s]["avg_beta"])]

\* line 50 without the division by the sum
SectorWeightsUnnormalised(metrics) == InverseBeta(metrics)

\* line 50: inverse_beta/inverse_beta.sum()
SectorWeights(metrics) ==
    LET inverse_beta == InverseBeta(metrics)
        total == FSum(inverse_beta, DOMAIN metrics)
    IN  [s \in DOMAIN metrics |-> FDiv(inverse_beta[s], total)]

\* the rows of a sector: what groupby('sector') hands to the lambda of line 54
Group(stocks, s) == {t \in DOMAIN stocks : stocks[t]["sector"] = s}

\* line 151: nlargest(limit, 'profitMargins') keeps the first rows on ties
RanksBefore(stocks, u, t) ==
    \/ FGt(stocks[u]["profitMargins"], stocks[t]["profitMargins"])
    \/ (stocks[u]["profitMargins"] = stocks[t]["profitMargins"] /\ u < t)

NLargest(stocks, group, n) ==
    {t \in group : Cardinality({u \in group : RanksBefore(stocks, u, t)}) < n}

\* lines 151-152: the rows extract_stock_wieght keeps of a sector
Eligible(stocks, s, n) ==
    {t \in NLargest(stocks, Group(stocks, s), n) : FGt(stocks[t]["profitMargins"], I(0))}

\* line 153: profitMargins / profitMargins.sum() over the kept rows
StockWeight(stocks, t, n) ==
    FDiv(stocks[t]["profitMargins"],
         FSum(Column(stocks, "profitMargins"), Eligible(stocks, stocks[t]["sector"], n)))

SectorsOf(stocks) == {stocks[t]["sector"] : t \in DOMAIN stocks}

\* lines 53-54: groupby('sector').apply(extract_stock_wieght), groups concatenated
SelectStocks(stocks, n) ==
    LET kept == UNION {Eligible(stocks, s, n) : s \in SectorsOf(stocks)}
    IN  [t \in kept |->
            [x \in DOMAIN stocks[t] \cup {"stock_wieght"} |->
                IF x = "stock_wieght" THEN StockWeight(stocks, t, n) ELSE stocks[t][x]]]

\* lines 57-59: inner join on sector with the sector weights, then the product
Merged(sel, metrics) ==
    LET joined == {t \in DOMAIN sel : sel[t]["sector"] \in DOMAIN metrics}
    IN  [t \in joined |->
            [x \in DOMAIN sel[t] \cup {"sector_wieghts", "final_wieght"} |->
                IF x = "sector_wieghts" THEN metrics[sel[t]["sector"]]["sector_wieghts"]
                ELSE IF x = "final_wieght"
                     THEN FMul(sel[t]["stock_wieght"],
                               metrics[sel[t]["sector"]]["sector_wieghts"])
                ELSE sel[t][x]]]

\* lines 49-50: the sector weights, written into the caller's table
ComputeSectorWeights ==
    /\ pc = "opt"
    /\ metrics_df_global' =
           SetColumn(metrics_df_global, "sector_wieghts", SectorWeights(metrics_df_global))
    /\ pc' = "select"
    /\ UNCHANGED <<stock_port_df, limit, selected, portfolio, total_amount, df_orig, df,
                   residue, result, passes, last>>

\* lines 53-54
Select ==
    /\ pc = "select"
    /\ selected' = SelectStocks(stock_port_df, limit)
    /\ pc' = "merge"
    /\ UNCHANGED <<metrics_df_global, stock_port_df, limit, portfolio, total_amount,
                   df_orig, df, residue, result, passes, last>>

\* lines 57-60: merged_df is built and handed to allocate_funds
Merge ==
    /\ pc = "merge"
    /\ df_orig' = Merged(selected, metrics_df_global)
    /\ pc' = "alloc"
    /\ UNCHANGED <<optVars, total_amount, df, residue, result, passes, last>>

\* line 62: portfolio_df.sort_values('shares', ascending=False)
SortReturn ==
    /\ pc = "returned"
    /\ portfolio' \in SortedOrders(result, "shares")
    /\ pc' = "done"
    /\ UNCHANGED <<metrics_df_global, stock_port_df, limit, selected, total_amount,
                   df_orig, df, residue, result, passes, last>>

(***************************************************************************)
(* A call portfolio_optimization(metrics_df_global, stock_port_df,         *)
(* total_amount, limit) as main makes it (main.py lines 43 and 57):        *)
(* metrics_df_global has one row per sector of the stock table, its        *)
(* avg_beta is NaN when every beta of the sector is missing.               *)
(***************************************************************************)
Betas == {NaN} \cup {I(b) : b \in (0 - 1)..MaxBeta}
Margins == {I(m) : m \in 0..MaxMargin}
OptPrices == {I(p) : p \in 1..MaxOptPrice}

StockRows(prices) ==
    [sector : 1..NumSectors, profitMargins : Margins, regularMarketPrice : prices]

\* stock tables whose rows come sector by sector, the sectors numbered 1..k
StockTables(prices) ==
    UNION {{tb \in [1..n -> StockRows(prices)] :
              /\ tb[1]["sector"] = 1
              /\ \A i \in 1..(n - 1) :
                    tb[i + 1]["sector"] \in {tb[i]["sector"], tb[i]["sector"] + 1}}
           : n \in 1..NumRecords}

MetricsTables(stocks) ==
    {[s \in SectorsOf(stocks) |-> [sector |-> s, avg_beta |-> b[s]]] :
        b \in [SectorsOf(stocks) -> Betas]}

InitCall(prices, amounts) ==
    /\ pc = "opt"
    /\ stock_port_df \in StockTables(prices)
    /\ metrics_df_global \in MetricsTables(stock_port_df)
    /\ limit \in 1..MaxLimit
    /\ total_amount \in amounts
    /\ selected = EmptyTable
    /\ df_orig = EmptyTable
    /\ df = NoDf
    /\ residue = NaN
    /\ result = EmptyTable
    /\ portfolio = << >>
    /\ passes = 0
    /\ last = NoPass

InitOpt == InitCall(OptPrices, 1..MaxAmount)

NextOpt == ComputeSectorWeights \/ Select \/ Merge \/ Phase1 \/ Pass \/ Exit \/ SortReturn

SpecOpt == InitOpt /\ [][NextOpt]_vars

(***************************************************************************)
(* The weighting stages alone, lines 49-59: the call up to the point where *)
(* merged_df is handed to allocate_funds.  Prices and the budget are not   *)
(* read by these stages and are held at 1.                                 *)
(***************************************************************************)
InitWeights == InitCall({I(1)}, {1})

NextWeights == ComputeSectorWeights \/ Select \/ Merge

SpecWeights == InitWeights /\ [][NextWeights]_vars

(***************************************************************************)
(* Properties of allocate_funds.                                           *)
(***************************************************************************)
Rows == DOMAIN df_orig
Price(t) == df_orig[t][price_col]
Weight(t) == df_orig[t][weight_col]
Shares(t) == df_orig[t]["shares"]

\* every price is a number > 0
ValidPrices == \A t \in Rows : IsFin(Price(t)) /\ Price(t).n > 0
\* every final weight is a number >= 0 and they sum to at most 1
ValidWeights ==
    /\ \A t \in Rows : IsFin(Weight(t)) /\ Weight(t).n >= 0
    /\ FLe(WeightSum(df_orig), I(1))
ValidInput == ValidPrices /\ ValidWeights

AfterPhase1 == pc \in {"loop", "returned", "sort", "done"}
Returned == pc \in {"returned", "sort", "done"}

\* Sum over the rows of shares * price
Spent == FSum([t \in Rows |-> FMul(Shares(t), Price(t))], Rows)

\* the residue Phase 1 left (df keeps the Phase-1 share counts)
ResidueAfterPhase1 == Phase1Residue(df_orig, df.shares, total_amount)

MinPrice == CHOOSE p \in {Price(t) : t \in Rows} : \A t \in Rows : FLe(p, Price(t))

\* C1: with a budget > 0, prices > 0 and weights >= 0 summing to at most 1,
\* the residue is >= 0 after Phase 1 and after every pass, and the money
\* spent, Sum shares * price, never exceeds the budget.
C1_NeverOverspends ==
    (ValidInput /\ total_amount > 0 /\ AfterPhase1) =>
        /\ FLe(I(0), residue)
        /\ FLe(Spent, I(total_amount))
        /\ FAdd(Spent, residue) = I(total_amount)

C1_Witness ==
    /\ ValidInput /\ total_amount > 0 /\ pc = "returned"
    /\ passes >= 1
    /\ Cardinality(Rows) >= 2
    /\ \A t \in Rows : FLt(I(0), result[t]["shares"])

\* C2 (as stated): the number of passes that increment a share count is at
\* most N, the number of candidates.
C2_HaltsWithinN ==
    (ValidInput /\ total_amount > 0 /\ AfterPhase1) => passes <= Cardinality(Rows)

\* C2 (amended): every pass increments a share count, lowers the residue by
\* at least the cheapest price and leaves it >= 0, so k passes satisfy
\* k * (cheapest price) + residue <= residue after Phase 1 <= budget.
C2_PassesBoundedByResidue ==
    (ValidInput /\ total_amount > 0 /\ AfterPhase1) =>
        /\ passes < PassCap
        /\ (last # NoPass => last.inc # {})
        /\ FLe(FAdd(FMul(I(passes), MinPrice), residue), ResidueAfterPhase1)
        /\ FLe(ResidueAfterPhase1, I(total_amount))

C2_Witness ==
    /\ ValidInput /\ total_amount > 0 /\ pc = "returned"
    /\ passes > Cardinality(Rows)

\* C3 (as stated): for the same table, a smaller budget never gives any
\* candidate more shares in the final allocation (stated for budgets > 0,
\* the budgets the allocator is specified for).
C3_BudgetMonotone ==
    (ValidInput /\ Returned) =>
        \A b \in Budgets : (0 < b /\ b < total_amount) =>
            \A t \in Rows :
                FLe(AllocateFunds(Project(df_orig, DOMAIN df_orig[t] \ {"shares"}),
                                  df.order, b)[t]["shares"],
                    Shares(t))

\* C3 (amended): the Phase-1 share counts floor(B * w / p) are monotone in
\* the budget B.
C3_Phase1Monotone ==
    (ValidInput /\ AfterPhase1) =>
        \A b \in Budgets : b < total_amount =>
            \A t \in Rows : FLe(Phase1Shares(df_orig, b)[t], df.shares[t])

C3_Witness ==
    /\ ValidInput /\ Returned
    /\ \E b \in Budgets : \E t \in Rows :
          /\ 0 < b /\ b < total_amount
          /\ FLt(Phase1Shares(df_orig, b)[t], df.shares[t])

\* C4: a pass never increments the share count of a candidate whose price
\* is equal to or greater than the residue the pass starts with.
C4_StrictAffordability ==
    [][(pc = "loop" /\ pc' = "loop") =>
          \A t \in Rows :
              FLe(residue, Price(t)) => df_orig'[t]["shares"] = Shares(t)]_vars

\* a pass that bought something while a candidate cost exactly the residue
C4_Witness ==
    /\ pc = "loop" /\ last.inc # {}
    /\ \E t \in Rows : Price(t) = last.residue /\ t \notin last.inc

\* C5 (as stated): a price <= 0 or undefined is rejected before Phase 1:
\* no share count is computed, the loop is not entered, nothing is returned.
C5_InvalidPriceRejected ==
    ~ValidPrices => (pc = "alloc" /\ result = EmptyTable)

\* C7 (as stated): with a budget <= 0 every returned share count is 0.
C7_NonPositiveBudgetZeroShares ==
    (ValidInput /\ total_amount <= 0 /\ pc = "returned") =>
        \A t \in Rows : result[t]["shares"] = I(0)

(***************************************************************************)
(* Properties of portfolio_optimization.                                   *)
(***************************************************************************)
Sectors == DOMAIN metrics_df_global
AvgBeta(s) == metrics_df_global[s]["avg_beta"]

AfterMerge == pc \in {"alloc", "loop", "returned", "done"}

SomeBetaZero == \E s \in Sectors : AvgBeta(s) = I(0)
AllBetasNonZero == \A s \in Sectors : AvgBeta(s) # I(0)
AllBetasDefined == \A s \in Sectors : ~IsNaN(AvgBeta(s))
AllSectorsEligible == \A s \in Sectors : Eligible(stock_port_df, s, limit) # {}

\* Sum of final_wieght over the securities handed to allocate_funds
FinalWeightSum == FSum(Column(df_orig, weight_col), DOMAIN df_orig)

\* C6 (as stated): when a sector's average beta is exactly 0 the call fails
\* while computing the sector weights: it never gets past line 49, selects
\* no stock, builds no merged table and returns no allocation.
C6_ZeroBetaRaises ==
    SomeBetaZero =>
        /\ pc = "opt"
        /\ selected = EmptyTable /\ df_orig = EmptyTable /\ result = EmptyTable

\* C8 (as stated): a security is in the table handed to allocate_funds, and
\* in the returned allocation, only if its sector has a selected stock and
\* a defined average beta.
C8_InnerJoinExcludes ==
    AfterMerge =>
        \A t \in DOMAIN df_orig \cup DOMAIN result :
            /\ Eligible(stock_port_df, stock_port_df[t]["sector"], limit) # {}
            /\ ~IsNaN(AvgBeta(stock_port_df[t]["sector"]))

\* C9 (as stated): with every sector average beta non-zero the final weights
\* sum to at most 1, and to exactly 1 iff every sector has an eligible
\* security and every sector has a defined beta.
C9_FinalWeightSum ==
    (AfterMerge /\ AllBetasNonZero) =>
        /\ FLe(FinalWeightSum, I(1))
        /\ (FinalWeightSum = I(1)) <=> (AllSectorsEligible /\ AllBetasDefined)

\* C9 (amended): when every defined sector average beta is > 0, the defined
\* final weights (a security of a sector without a defined beta has the
\* final weight NaN) sum to at most 1, and to exactly 1 iff some sector has
\* a defined beta and every sector with a defined beta has an eligible
\* security.
DefinedBetasPositive == \A s \in Sectors : IsNaN(AvgBeta(s)) \/ FGt(AvgBeta(s), I(0))
DefinedSectors == {s \in Sectors : ~IsNaN(AvgBeta(s))}

C9_DefinedWeightSum ==
    (AfterMerge /\ DefinedBetasPositive) =>
        /\ FLe(FinalWeightSum, I(1))
        /\ (FinalWeightSum = I(1)) <=>
              /\ DefinedSectors # {}
              /\ \A s \in DefinedSectors : Eligible(stock_port_df, s, limit) # {}

\* two sectors with different positive betas, both with a selected stock,
\* one of them cut by the limit: the weights sum to exactly 1
C9_Witness ==
    /\ AfterMerge /\ DefinedBetasPositive
    /\ \E s, u \in DefinedSectors : FLt(AvgBeta(s), AvgBeta(u))
    /\ AllSectorsEligible
    /\ Cardinality(DOMAIN df_orig) < Cardinality(DOMAIN stock_port_df)
    /\ FinalWeightSum = I(1)

\* C10 (as stated): no step changes a table the caller passed in:
\* metrics_df_global and stock_port_df during portfolio_optimization,
\* df_orig during allocate_funds.
C10_NoCallerTableMutated ==
    [][/\ metrics_df_global' = metrics_df_global
       /\ stock_port_df' = stock_port_df
       /\ (pc \in {"alloc", "loop"} => df_orig' = df_orig)]_vars

\* C11: with prices > 0, every step of the loop either finds no price below
\* the residue and exits, changing no share count, or increments the share
\* count of at least one candidate, each by exactly 1, and lowers the
\* residue by the sum, > 0, of the prices of the candidates it incremented.
C11_PassProgress ==
    [][(pc = "loop" /\ ValidPrices) =>
          \/ /\ pc' = "returned"
             /\ \A t \in Rows : ~FLt(Price(t), residue)
             /\ df_orig' = df_orig
             /\ residue' = residue
          \/ /\ pc' = "loop"
             /\ LET inc == {t \in Rows : df_orig'[t]["shares"] # Shares(t)}
                    paid == FSum([t \in Rows |-> Price(t)], inc)
                IN  /\ inc # {}
                    /\ \A t \in inc : df_orig'[t]["shares"] = FAdd(Shares(t), I(1))
                    /\ FLt(I(0), paid)
                    /\ residue' = FSub(residue, paid)
                    /\ FLt(residue', residue)]_vars

\* a pass with prices > 0 that incremented every one of several candidates,
\* leaving a smaller residue
C11_Witness ==
    /\ pc = "loop" /\ ValidPrices
    /\ Cardinality(Rows) >= 2
    /\ last.inc = Rows
    /\ FLt(residue, last.residue)

\* the position of row t in df's row order
Position(t) == CHOOSE i \in DOMAIN df.order : df.order[i] = t

\* the rows with a price below the residue
Cheaper == {t \in Rows : FLt(Price(t), residue)}

\* the sum of the prices of the rows of Cheaper up to t in df's row order
RunningPrice(t) ==
    FSum([u \in Rows |-> Price(u)], {u \in Cheaper : Position(u) <= Position(t)})

\* C12: df's row order is by descending final weight and no pass changes
\* it; the rows a pass increments are exactly a prefix, in that order, of the
\* rows with price < residue: every row of the prefix has a running
\* cumulative price < residue and the first row after it has not.  Hence a
\* row with a higher final weight than an incremented row and a price <
\* residue is incremented by the same pass.
C12_PriorityPrefix ==
    [][(pc = "loop" /\ pc' = "loop") =>
          LET inc == last'.inc
          IN  /\ df' = df
              /\ \A i, j \in DOMAIN df.order :
                    i < j => ~FGt(Weight(df.order[j]), Weight(df.order[i]))
              /\ \A t \in Rows :
                    df_orig'[t]["shares"] =
                        IF t \in inc THEN FAdd(Shares(t), I(1)) ELSE Shares(t)
              /\ inc \subseteq Cheaper
              /\ \A t \in inc : \A u \in Cheaper : Position(u) < Position(t) => u \in inc
              /\ \A t \in inc : FLt(RunningPrice(t), residue)
              /\ \A t \in Cheaper \ inc :
                    (\A u \in Cheaper \ inc : Position(t) <= Position(u))
                        => ~FLt(RunningPrice(t), residue)
              /\ \A i \in Rows : \A j \in inc :
                    (FGt(Weight(i), Weight(j)) /\ FLt(Price(i), residue)) => i \in inc]_vars

\* a pass that incremented a row and left out a row of lower weight whose
\* price was below the residue
C12_Witness ==
    /\ pc = "loop"
    /\ \E i \in last.inc : \E j \in Rows \ last.inc :
          /\ FGt(Weight(i), Weight(j))
          /\ FLt(Price(j), last.residue)

=============================================================================
